---- MODULE Spec2Model ----
(***************************************************************************)
(* Model of the news analysis pipeline of eo_disaster_analyzer:            *)
(*   llm/clients.py   get_llm_client, run_news_analysis_pipeline           *)
(*   llm/schemas.py   Location, DisasterEvent                              *)
(*   data/providers.py    fetch_disaster_news                              *)
(*   data/extractors.py   extract_entities_from_text                       *)
(*   scripts/load_news.py display_results                                  *)
(*                                                                         *)
(* Three specifications share the variables:                               *)
(*   Spec         one run of run_news_analysis_pipeline, statement by      *)
(*                statement, with the provider, the tagger and the         *)
(*                language-model backend as nondeterministic inputs;       *)
(*   SpecClient   several threads inside get_llm_client, interleaved at    *)
(*                the granularity of its statements;                       *)
(*   SpecDisplay  display_results over a sequence of confirmed pairs.      *)
(*                                                                         *)
(* Texts the code inspects are sequences of one-character strings, so      *)
(* that str.lower() and the "in" substring test are computed.  Floats are  *)
(* scaled integers: a confidence is counted in tenths, a coordinate in     *)
(* 1e-5 degrees.  Names the code reads (the prompt imported at             *)
(* clients.py:13, the settings attribute at clients.py:35) are taken as    *)
(* bound to the objects prompts.py and config.py define.                   *)
(***************************************************************************)
EXTENDS Integers, Sequences, FiniteSets, TLC

\* ---------------------------------------------------------------- bounds
MaxArticles == 2
NumCallers == 3
MaxEvents == 1
MaxLocs == 2

\* ------------------------------------------------------------ Python bits
None == "None"

\* no client object; a client object is <<n>>, n counting constructions
NoClient == <<>>

SeqsUpTo(S, n) == UNION {[1..k -> S] : k \in 0..n}

\* str.lower() on the characters that occur in the backend's answers
LowerChar(c) ==
  CASE c = "R" -> "r"
    [] c = "E" -> "e"
    [] c = "L" -> "l"
    [] c = "V" -> "v"
    [] c = "A" -> "a"
    [] c = "N" -> "n"
    [] c = "T" -> "t"
    [] c = "I" -> "i"
    [] c = "O" -> "o"
    [] OTHER -> c

Lower(s) == [i \in DOMAIN s |-> LowerChar(s[i])]

\* Python's  needle in hay  on str
Contains(hay, needle) ==
  \E i \in 0..(Len(hay) - Len(needle)) :
     SubSeq(hay, i + 1, i + Len(needle)) = needle

\* the literal "relevant" of clients.py:109
RELEVANT == <<"r", "e", "l", "e", "v", "a", "n", "t">>

\* answers the classifier prompt asks for, and variations a model gives
TxtRelevant == RELEVANT
TxtIrrelevant == <<"i", "r">> \o RELEVANT
TxtCapital == <<"R", "e", "l", "e", "v", "a", "n", "t", ".">>
TxtNo == <<"N", "o">>

ClassifierTexts == {TxtRelevant, TxtIrrelevant, TxtCapital, TxtNo}

\* ------------------------------------------------------------- data model
\* providers.py: one dict per feed entry
Article(t, l) == [title |-> t, link |-> l, published |-> "today", summary |-> "s"]

ArticlePool == {Article("Flood hits coastal town", "u1"), Article("Budget vote", "u2")}

\* extractors.py: what the tagger finds in "title. summary" (a fixed table
\* standing for the spaCy model), or nothing when the model is not loaded
TaggerEntities(article) ==
  IF article.title = "Flood hits coastal town"
  THEN [locations |-> <<"coastal town">>, dates |-> <<>>, events |-> <<"Flood">>]
  ELSE [locations |-> <<>>, dates |-> <<"Monday">>, events |-> <<>>]

extract_entities_from_text(nlpLoaded, article) ==
  IF ~nlpLoaded
  THEN [locations |-> <<>>, dates |-> <<>>, events |-> <<>>]
  ELSE TaggerEntities(article)

\* clients.py:130  {**article, **entities}
Augmented(article, entities) ==
  [title |-> article.title, link |-> article.link,
   published |-> article.published, summary |-> article.summary,
   locations |-> entities.locations, dates |-> entities.dates,
   events |-> entities.events]

\* the article fields of an augmented payload
ArticleOf(payload) ==
  [title |-> payload.title, link |-> payload.link,
   published |-> payload.published, summary |-> payload.summary]

\* ---------------------------------------------------------------- backend
\* a classification call: the text the backend answered, or a failed call
ClassifyOutcomes ==
  [failed : {FALSE}, text : ClassifierTexts] \cup {[failed |-> TRUE, text |-> <<>>]}

\* confidences a backend may put in a structured answer, in tenths
RawConfidences == {-1, 0, 10, 15}

\* one structured answer of the backend before schema validation
RawEvents == [failed : {FALSE}, is_disaster_related : BOOLEAN, confidence : RawConfidences]

\* an extraction call: a structured answer, or a failed call
ExtractOutcomes ==
  RawEvents \cup {[failed |-> TRUE, is_disaster_related |-> FALSE, confidence |-> 0]}

\* the constraint without its upper bound
ConfidenceValid_NoUpper(c) == c >= 0

\* schemas.py:64-69  confidence: float = Field(..., ge=0.0, le=1.0)
ConfidenceValid(c) == c >= 0 /\ c <= 10

\* with_structured_output(DisasterEvent): the answer is coerced into the
\* schema or the item raises
ItemRaises(raw) == raw.failed \/ ~ConfidenceValid(raw.confidence)

\* Runnable.batch: any failing item makes the call raise
BatchRaises(outs) == \E i \in DOMAIN outs : outs[i].failed

\* a batch that gives up only when every item failed
ExtractionRaises_OnlyIfAll(raws) == raws # <<>> /\ \A i \in DOMAIN raws : ItemRaises(raws[i])

\* clients.py:132-136 with schemas.py: the extraction batch raises when a
\* call fails or an answer violates the schema
ExtractionRaises(raws) == \E i \in DOMAIN raws : ItemRaises(raws[i])

\* the DisasterEvent built from the answer to one payload; input is the
\* payload the backend answered, kept to tell which article an event is of
DisasterEvent(raw, payload) ==
  [title |-> payload.title,
   is_disaster_related |-> raw.is_disaster_related,
   confidence |-> raw.confidence,
   input |-> payload]

\* ------------------------------------------------------------ pure stages
\* a provider that lets a partial result out of its except branch
fetch_disaster_news_KeepOnError(entries, failed, max_results) ==
  SubSeq(entries, 1, IF Len(entries) < max_results THEN Len(entries) ELSE max_results)

\* providers.py:24-40
fetch_disaster_news(entries, failed, max_results) ==
  IF failed THEN <<>>
  ELSE SubSeq(entries, 1, IF Len(entries) < max_results THEN Len(entries) ELSE max_results)

\* the test without .lower()
IsRelevant_CaseSensitive(text) == Contains(text, RELEVANT)

\* clients.py:109
IsRelevant(text) == Contains(Lower(text), RELEVANT)

RECURSIVE FilterZip(_, _, _)
FilterZip(arts, results, i) ==
  IF i > Len(arts) \/ i > Len(results) THEN <<>>
  ELSE (IF IsRelevant(results[i]) THEN <<arts[i]>> ELSE <<>>)
       \o FilterZip(arts, results, i + 1)

\* clients.py:106-110
RelevantArticles(arts, results) == FilterZip(arts, results, 1)

\* clients.py:126-130
BatchInputs(nlpLoaded, rel) ==
  [i \in DOMAIN rel |-> Augmented(rel[i], extract_entities_from_text(nlpLoaded, rel[i]))]

RECURSIVE ConfirmZip(_, _, _)
ConfirmZip(events, rel, i) ==
  IF i > Len(events) \/ i > Len(rel) THEN <<>>
  ELSE (IF events[i].is_disaster_related THEN <<<<events[i], rel[i]>>>> ELSE <<>>)
       \o ConfirmZip(events, rel, i + 1)

\* the comprehension without its condition
ConfirmedPairs_NoFilter(events, rel) ==
  [i \in 1..(IF Len(events) < Len(rel) THEN Len(events) ELSE Len(rel)) |-> <<events[i], rel[i]>>]

\* the filter applied to the events before they are zipped with the articles
ConfirmedPairs_FilterThenZip(events, rel) ==
  LET kept == SelectSeq(events, LAMBDA e : e.is_disaster_related)
  IN  [i \in 1..(IF Len(kept) < Len(rel) THEN Len(kept) ELSE Len(rel)) |-> <<kept[i], rel[i]>>]

\* the events zipped with the payloads sent to the backend
ConfirmedPairs_WithPayload(events, rel) ==
  LET kept == SelectSeq(events, LAMBDA e : e.is_disaster_related)
  IN  [i \in DOMAIN kept |-> <<kept[i], kept[i].input>>]

\* clients.py:143-147
ConfirmedPairs(events, rel) == ConfirmZip(events, rel, 1)

\* ---------------------------------------------------------------- display
\* Optional[float]: <<>> is None, <<x>> is the float x (in 1e-5 degrees)
Latitudes == {<<>>, <<0>>, <<4845123>>}
Longitudes == {<<>>, <<0>>, <<-123456>>}

\* schemas.py:6-20
Locations ==
  [name : {"coastal town"}, country : {None, "France"},
   latitude : Latitudes, longitude : Longitudes]

\* the events display_results is given: only their locations matter to the table
DisplayEvent(locs) ==
  [title |-> "Flood hits coastal town", is_disaster_related |-> TRUE,
   confidence |-> 9, locations |-> locs]

\* Python truth value of an Optional[float]
Truthy(opt) == opt # <<>> /\ opt[1] # 0

Abs(x) == IF x < 0 THEN -x ELSE x

\* format(x, ".4f") of x given in 1e-5 units: sign, integer part, four decimals
Fmt4f(x) ==
  LET q == (Abs(x) + 5) \div 10
  IN  [neg |-> x < 0, whole |-> q \div 10000, frac |-> q % 10000]

NoCoords == [neg |-> FALSE, whole |-> 0, frac |-> 0]

\* load_news.py:30  the condition of the conditional expression
CoordsShown(loc) == Truthy(loc.latitude) /\ Truthy(loc.longitude)

\* load_news.py:30  formatting None with ".4f" raises TypeError
CoordsRaise(loc) == CoordsShown(loc) /\ (loc.latitude = <<>> \/ loc.longitude = <<>>)

\* load_news.py:30-31  the row added to the table
Row(loc) ==
  [name |-> loc.name,
   country |-> IF loc.country = None THEN "N/A" ELSE loc.country,
   na |-> ~CoordsShown(loc),
   lat |-> IF CoordsShown(loc) THEN Fmt4f(loc.latitude[1]) ELSE NoCoords,
   lon |-> IF CoordsShown(loc) THEN Fmt4f(loc.longitude[1]) ELSE NoCoords]

\* ------------------------------------------------------------------ state
VARIABLES
  pc,                \* position in run_news_analysis_pipeline
  credential,        \* OPENAI_API_KEY in the environment: "set", "empty", "absent"
  nlp,               \* extractors.nlp is loaded
  LLM_CACHE,         \* clients._LLM_CACHE: None or the id of a client
  created,           \* number of ChatOpenAI objects constructed so far
  provider_failed,   \* the provider's search raised inside fetch_disaster_news
  articles,          \* clients.py:81
  relevance_raw,     \* per-article outcome of the classification calls
  relevance_results, \* clients.py:99
  relevant_articles, \* clients.py:106
  batch_inputs,      \* clients.py:126
  extraction_raw,    \* per-payload outcome of the extraction calls
  disaster_events,   \* clients.py:133
  result,            \* the value returned
  error,             \* the exception leaving the pipeline, or None
  netlog,            \* network calls made so far, in order
  cpc, tmp, got,     \* get_llm_client callers: position, local client, return value
  confirmed_events,  \* display_results argument
  ei, li,            \* display_results loop positions
  rows,              \* rows of the current location table
  display_error,     \* the exception leaving display_results, or None
  printed            \* tables printed: a sequence of row sequences

pipeVars == <<pc, nlp, provider_failed, articles, relevance_raw, relevance_results, relevant_articles,
              batch_inputs, extraction_raw, disaster_events, result, error, netlog>>
clientVars == <<cpc, tmp, got>>
displayVars == <<confirmed_events, ei, li, rows, display_error, printed>>
vars == <<pipeVars, credential, LLM_CACHE, created, clientVars, displayVars>>

Credentials == {"set", "empty", "absent"}

ClientIdle ==
  /\ cpc = <<>> /\ tmp = <<>> /\ got = <<>>

DisplayIdle ==
  /\ confirmed_events = <<>> /\ ei = 0 /\ li = 0 /\ rows = <<>>
  /\ display_error = None /\ printed = <<>>

PipeIdle ==
  /\ pc = "idle" /\ nlp = FALSE /\ LLM_CACHE = NoClient /\ created = 0
  /\ provider_failed = FALSE
  /\ articles = <<>> /\ relevance_raw = <<>> /\ relevance_results = <<>>
  /\ relevant_articles = <<>> /\ batch_inputs = <<>> /\ extraction_raw = <<>>
  /\ disaster_events = <<>> /\ result = <<>> /\ error = None /\ netlog = <<>>

\* -------------------------------------------------- the pipeline, by line
Init ==
  /\ pc = "L81"
  /\ credential \in Credentials
  /\ nlp \in BOOLEAN
  /\ LLM_CACHE = NoClient /\ created = 0
  /\ provider_failed = FALSE
  /\ articles = <<>> /\ relevance_raw = <<>> /\ relevance_results = <<>>
  /\ relevant_articles = <<>> /\ batch_inputs = <<>> /\ extraction_raw = <<>>
  /\ disaster_events = <<>> /\ result = <<>> /\ error = None /\ netlog = <<>>
  /\ ClientIdle /\ DisplayIdle

Return(value) ==
  /\ pc' = "returned"
  /\ result' = value

Raise(exc) ==
  /\ pc' = "raised"
  /\ error' = exc

\* clients.py:81-85: the provider is called; it returns the first
\* max_results entries of the feed, or [] when the search raises
Fetch ==
  /\ pc = "L81"
  /\ \E entries \in SeqsUpTo(ArticlePool, MaxArticles + 1), failed \in BOOLEAN :
       /\ provider_failed' = failed
       /\ articles' = fetch_disaster_news(entries, failed, MaxArticles)
  /\ netlog' = Append(netlog, "fetch")
  /\ pc' = "L87"
  /\ UNCHANGED <<nlp, relevance_raw, relevance_results, relevant_articles, batch_inputs,
                 extraction_raw, disaster_events, result, error,
                 credential, LLM_CACHE, created, clientVars, displayVars>>

\* clients.py:87-89
NoArticles ==
  /\ pc = "L87"
  /\ IF articles = <<>>
     THEN Return(<<>>)
     ELSE pc' = "L93" /\ UNCHANGED result
  /\ UNCHANGED <<nlp, provider_failed, articles, relevance_raw, relevance_results, relevant_articles,
                 batch_inputs, extraction_raw, disaster_events, error, netlog,
                 credential, LLM_CACHE, created, clientVars, displayVars>>

\* clients.py:93 with 25-48 run by the pipeline's single thread
GetClient ==
  /\ pc = "L93"
  /\ IF LLM_CACHE # NoClient
     THEN pc' = "L99" /\ UNCHANGED <<LLM_CACHE, created, error>>
     ELSE CASE credential = "absent" ->
                 Raise("ValidationError") /\ UNCHANGED <<LLM_CACHE, created>>
            [] credential = "empty" ->
                 Raise("ValueError") /\ UNCHANGED <<LLM_CACHE, created>>
            [] OTHER ->
                 /\ created' = created + 1
                 /\ LLM_CACHE' = <<created + 1>>
                 /\ pc' = "L99"
                 /\ UNCHANGED error
  /\ UNCHANGED <<nlp, provider_failed, articles, relevance_raw, relevance_results, relevant_articles,
                 batch_inputs, extraction_raw, disaster_events, result, netlog,
                 credential, clientVars, displayVars>>

\* clients.py:98-104: one classification call per article; the batch
\* raises when a call fails, and the pipeline returns []
Classify ==
  /\ pc = "L99"
  /\ \E outs \in [DOMAIN articles -> ClassifyOutcomes] :
       /\ relevance_raw' = outs
       /\ IF BatchRaises(outs)
          THEN Return(<<>>) /\ UNCHANGED relevance_results
          ELSE /\ relevance_results' = [i \in DOMAIN outs |-> outs[i].text]
               /\ pc' = "L106"
               /\ UNCHANGED result
  /\ netlog' = Append(netlog, "classify")
  /\ UNCHANGED <<nlp, provider_failed, articles, relevant_articles, batch_inputs, extraction_raw,
                 disaster_events, error,
                 credential, LLM_CACHE, created, clientVars, displayVars>>

\* clients.py:106-114
Filter ==
  /\ pc = "L106"
  /\ relevant_articles' = RelevantArticles(articles, relevance_results)
  /\ IF relevant_articles' = <<>>
     THEN Return(<<>>)
     ELSE pc' = "L126" /\ UNCHANGED result
  /\ UNCHANGED <<nlp, provider_failed, articles, relevance_raw, relevance_results, batch_inputs,
                 extraction_raw, disaster_events, error, netlog,
                 credential, LLM_CACHE, created, clientVars, displayVars>>

\* clients.py:122-130
Augment ==
  /\ pc = "L126"
  /\ batch_inputs' = BatchInputs(nlp, relevant_articles)
  /\ pc' = "L133"
  /\ UNCHANGED <<nlp, provider_failed, articles, relevance_raw, relevance_results, relevant_articles,
                 extraction_raw, disaster_events, result, error, netlog,
                 credential, LLM_CACHE, created, clientVars, displayVars>>

\* clients.py:132-138: one structured call per payload, answered in request
\* order; a failed call or an answer the schema rejects makes the batch raise
Extract ==
  /\ pc = "L133"
  /\ \E raws \in [DOMAIN batch_inputs -> ExtractOutcomes] :
       /\ extraction_raw' = raws
       /\ IF ExtractionRaises(raws)
          THEN Return(<<>>) /\ UNCHANGED disaster_events
          ELSE /\ disaster_events' =
                    [i \in DOMAIN raws |-> DisasterEvent(raws[i], batch_inputs[i])]
               /\ pc' = "L143"
               /\ UNCHANGED result
  /\ netlog' = Append(netlog, "extract")
  /\ UNCHANGED <<nlp, provider_failed, articles, relevance_raw, relevance_results, relevant_articles,
                 batch_inputs, error,
                 credential, LLM_CACHE, created, clientVars, displayVars>>

\* clients.py:143-153
Confirm ==
  /\ pc = "L143"
  /\ Return(ConfirmedPairs(disaster_events, relevant_articles))
  /\ UNCHANGED <<nlp, provider_failed, articles, relevance_raw, relevance_results, relevant_articles,
                 batch_inputs, extraction_raw, disaster_events, error, netlog,
                 credential, LLM_CACHE, created, clientVars, displayVars>>

\* ------------------------------------------- get_llm_client, by statement
Callers == 1..NumCallers

InitClient ==
  /\ PipeIdle /\ DisplayIdle
  /\ credential \in Credentials
  /\ cpc = [c \in Callers |-> "L31"]
  /\ tmp = [c \in Callers |-> NoClient]
  /\ got = [c \in Callers |-> NoClient]

\* clients.py:31
CheckCache(c) ==
  /\ cpc[c] = "L31"
  /\ cpc' = [cpc EXCEPT ![c] = IF LLM_CACHE # NoClient THEN "L32" ELSE "L34"]
  /\ UNCHANGED <<pipeVars, displayVars, credential, LLM_CACHE, created, tmp, got>>

\* clients.py:34-35  Settings() fails validation when the variable is absent
ReadSettings(c) ==
  /\ cpc[c] = "L34"
  /\ cpc' = [cpc EXCEPT ![c] = IF credential = "absent" THEN "raised" ELSE "L37"]
  /\ UNCHANGED <<pipeVars, displayVars, credential, LLM_CACHE, created, tmp, got>>

\* clients.py:37-38
CheckKey(c) ==
  /\ cpc[c] = "L37"
  /\ cpc' = [cpc EXCEPT ![c] = IF credential = "empty" THEN "raised" ELSE "L42"]
  /\ UNCHANGED <<pipeVars, displayVars, credential, LLM_CACHE, created, tmp, got>>

\* clients.py:42-46  the right-hand side: a new ChatOpenAI
Construct(c) ==
  /\ cpc[c] = "L42"
  /\ created' = created + 1
  /\ tmp' = [tmp EXCEPT ![c] = <<created + 1>>]
  /\ cpc' = [cpc EXCEPT ![c] = "L42s"]
  /\ UNCHANGED <<pipeVars, displayVars, credential, LLM_CACHE, got>>

\* clients.py:42  the assignment to the global
Store(c) ==
  /\ cpc[c] = "L42s"
  /\ LLM_CACHE' = tmp[c]
  /\ cpc' = [cpc EXCEPT ![c] = "L48"]
  /\ UNCHANGED <<pipeVars, displayVars, credential, created, tmp, got>>

\* clients.py:32 and 48  return _LLM_CACHE reads the global
ReturnCache(c) ==
  /\ cpc[c] \in {"L32", "L48"}
  /\ got' = [got EXCEPT ![c] = LLM_CACHE]
  /\ cpc' = [cpc EXCEPT ![c] = "done"]
  /\ UNCHANGED <<pipeVars, displayVars, credential, LLM_CACHE, created, tmp>>

NextClient ==
  \E c \in Callers :
    \/ CheckCache(c)
    \/ ReadSettings(c)
    \/ CheckKey(c)
    \/ Construct(c)
    \/ Store(c)
    \/ ReturnCache(c)

SpecClient == InitClient /\ [][NextClient]_vars

\* ------------------------------------------------ display_results, by row
InitDisplay ==
  /\ PipeIdle /\ ClientIdle
  /\ credential = "set"
  /\ confirmed_events \in
       SeqsUpTo({<<DisplayEvent(locs), a>> :
                   locs \in SeqsUpTo(Locations, MaxLocs),
                   a \in {Article("Flood hits coastal town", "u1")}}, MaxEvents)
  /\ ei = 1 /\ li = 1 /\ rows = <<>> /\ display_error = None /\ printed = <<>>

\* load_news.py:29-31  one iteration of the inner loop
RenderLocation ==
  /\ display_error = None
  /\ ei <= Len(confirmed_events)
  /\ li <= Len(confirmed_events[ei][1].locations)
  /\ LET loc == confirmed_events[ei][1].locations[li]
     IN  IF CoordsRaise(loc)
         THEN display_error' = "TypeError" /\ UNCHANGED <<rows, li>>
         ELSE /\ rows' = Append(rows, Row(loc))
              /\ li' = li + 1
              /\ UNCHANGED display_error
  /\ UNCHANGED <<pipeVars, clientVars, credential, LLM_CACHE, created,
                 confirmed_events, ei, printed>>

\* load_news.py:33-50  the panel and the table of one event are printed
PrintEvent ==
  /\ display_error = None
  /\ ei <= Len(confirmed_events)
  /\ li > Len(confirmed_events[ei][1].locations)
  /\ printed' = Append(printed, rows)
  /\ rows' = <<>>
  /\ ei' = ei + 1
  /\ li' = 1
  /\ UNCHANGED <<pipeVars, clientVars, credential, LLM_CACHE, created,
                 confirmed_events, display_error>>

NextDisplay ==
  \/ RenderLocation
  \/ PrintEvent

SpecDisplay == InitDisplay /\ [][NextDisplay]_vars

Next ==
  \/ Fetch
  \/ NoArticles
  \/ GetClient
  \/ Classify
  \/ Filter
  \/ Augment
  \/ Extract
  \/ Confirm

Spec == Init /\ [][Next]_vars

\* ================================================================ claims
Returned == pc = "returned"

\* the classification batch returned its texts
Classified == relevance_results # <<>>

\* the extraction batch returned its events
Extracted == disaster_events # <<>>

\* the k-th smallest element of a set of positions
Nth(P, k) == CHOOSE i \in P : Cardinality({j \in P : j < i}) = k - 1

\* C1: every (event, article) pair of the returned sequence has
\* is_disaster_related true, and no extracted event whose flag is false
\* is among the returned events.
C1_OnlyConfirmedReturned ==
  Returned =>
    /\ \A k \in DOMAIN result : result[k][1].is_disaster_related = TRUE
    /\ \A i \in DOMAIN disaster_events :
         ~disaster_events[i].is_disaster_related =>
           \A k \in DOMAIN result : result[k][1] # disaster_events[i]

\* a run that returned some pairs and dropped an event flagged false
C1_Witness ==
  /\ Returned /\ result # <<>>
  /\ \E i \in DOMAIN disaster_events : ~disaster_events[i].is_disaster_related

\* C2: when the provider returns articles and the classifier answers
\* "irrelevant" for every one of them, the extraction stage is never
\* invoked and the pipeline returns the empty sequence.
C2_AllIrrelevantReturnsEmpty ==
  (/\ articles # <<>>
   /\ Len(relevance_raw) = Len(articles)
   /\ \A i \in DOMAIN relevance_raw :
        ~relevance_raw[i].failed /\ relevance_raw[i].text = TxtIrrelevant)
  => /\ \A n \in DOMAIN netlog : netlog[n] # "extract"
     /\ (Returned => result = <<>>)

\* C3: with the credential missing, the configuration error is raised
\* before any provider fetch or backend call has been made.
C3_ConfigErrorBeforeNetwork ==
  (credential # "set" /\ pc = "raised") => netlog = <<>>

\* C4: with a valid configuration no exception leaves the pipeline; when a
\* classification call fails the run returns [] without invoking the
\* extraction stage, and when an extraction call fails the run returns []
\* whatever the other items answered.
C4_BatchFailureReturnsEmpty ==
  credential = "set" =>
    /\ pc # "raised" /\ error = None
    /\ (\E i \in DOMAIN relevance_raw : relevance_raw[i].failed) =>
         /\ Returned /\ result = <<>>
         /\ \A n \in DOMAIN netlog : netlog[n] # "extract"
    /\ (\E i \in DOMAIN extraction_raw : extraction_raw[i].failed) =>
         Returned /\ result = <<>>

\* an extraction call failed while another item had a valid, confirmed answer
C4_Witness ==
  /\ credential = "set" /\ Returned
  /\ \E i \in DOMAIN extraction_raw : extraction_raw[i].failed
  /\ \E i \in DOMAIN extraction_raw :
       /\ ~extraction_raw[i].failed
       /\ extraction_raw[i].is_disaster_related
       /\ extraction_raw[i].confidence \in 0..10

\* C5: every returned event has a confidence within [0.0, 1.0]; one answer
\* with an out-of-range confidence is rejected, not clamped, and makes the
\* whole run return [] even when the other answers are valid.
C5_ConfidenceInRange ==
  /\ \A k \in DOMAIN result : result[k][1].confidence \in 0..10
  /\ \A i \in DOMAIN disaster_events : disaster_events[i].confidence \in 0..10
  /\ (\E i \in DOMAIN extraction_raw :
        ~extraction_raw[i].failed /\ extraction_raw[i].confidence \notin 0..10)
     => Returned /\ result = <<>> /\ disaster_events = <<>>

\* one answer carried 1.5 while another was a valid, confirmed event
C5_Witness ==
  /\ Returned
  /\ \A i \in DOMAIN extraction_raw : ~extraction_raw[i].failed
  /\ \E i \in DOMAIN extraction_raw : extraction_raw[i].confidence = 15
  /\ \E i \in DOMAIN extraction_raw :
       extraction_raw[i].is_disaster_related /\ extraction_raw[i].confidence = 10

\* C6: when the backend succeeds, there is exactly one event per relevant
\* article, the i-th event being the one extracted from the i-th relevant
\* article; the returned pairs are the confirmed ones among these, each
\* event with the article it was extracted from, in the articles' order.
C6_OneToOneOrderPreserving ==
  Extracted =>
    /\ Len(disaster_events) = Len(relevant_articles)
    /\ \A i \in DOMAIN disaster_events :
         ArticleOf(disaster_events[i].input) = relevant_articles[i]
    /\ Returned =>
         LET P == {i \in DOMAIN disaster_events : disaster_events[i].is_disaster_related}
         IN  /\ Len(result) = Cardinality(P)
             /\ \A k \in DOMAIN result :
                  /\ result[k] = <<disaster_events[Nth(P, k)], relevant_articles[Nth(P, k)]>>
                  /\ ArticleOf(result[k][1].input) = result[k][2]

\* two different relevant articles, the first one's event dropped
C6_Witness ==
  /\ Returned /\ Extracted
  /\ Len(relevant_articles) = 2
  /\ relevant_articles[1] # relevant_articles[2]
  /\ ~disaster_events[1].is_disaster_related
  /\ Len(result) = 1

\* C7: when the provider yields no article, a failed search included, the
\* pipeline returns [] and neither the classifier nor the extraction
\* backend is called.
C7_NoArticlesReturnsEmpty ==
  (pc # "L81" /\ (articles = <<>> \/ provider_failed)) =>
    /\ pc \in {"L87", "returned"}
    /\ netlog = <<"fetch">>
    /\ error = None
    /\ (Returned => result = <<>>)

\* the provider's search failed and the run has returned
C7_Witness ==
  /\ Returned /\ provider_failed /\ result = <<>> /\ netlog = <<"fetch">>

\* the other case of a character
UpperChar(c) ==
  CASE c = "r" -> "R"
    [] c = "e" -> "E"
    [] c = "l" -> "L"
    [] c = "v" -> "V"
    [] c = "a" -> "A"
    [] c = "n" -> "N"
    [] c = "t" -> "T"
    [] OTHER -> c

\* text contains "relevant" in some mix of upper and lower case
MentionsRelevant(text) ==
  \E k \in 0..(Len(text) - Len(RELEVANT)) :
     \A j \in DOMAIN RELEVANT :
        text[k + j] \in {RELEVANT[j], UpperChar(RELEVANT[j])}

\* C10: the relevant articles are exactly the articles whose answer, at the
\* same position, contains "relevant" in any case, in the articles' order.
C10_RelevantIffContains ==
  (Classified /\ pc \notin {"L99", "L106"}) =>
    LET P == {i \in DOMAIN articles : MentionsRelevant(relevance_results[i])}
    IN  /\ Len(relevance_results) = Len(articles)
        /\ Len(relevant_articles) = Cardinality(P)
        /\ \A k \in DOMAIN relevant_articles : relevant_articles[k] = articles[Nth(P, k)]

\* a capitalised answer put the second of two different articles, and only
\* it, in the relevant set
C10_Witness ==
  /\ Classified /\ pc = "L126"
  /\ Len(articles) = 2 /\ articles[1] # articles[2]
  /\ relevance_results[1] = TxtNo
  /\ relevance_results[2] = TxtCapital
  /\ relevant_articles = <<articles[2]>>

\* C9: at most one client is ever constructed, and every caller that has
\* returned holds the same client.
C9_SingleClient ==
  /\ created <= 1
  /\ \A c \in DOMAIN cpc : \A d \in DOMAIN cpc :
       (cpc[c] = "done" /\ cpc[d] = "done") => got[c] = got[d]

\* C8: display_results never raises; a location with exactly one coordinate
\* is shown as "N/A"; a location with both coordinates is shown with its
\* coordinates formatted to four decimals.
C8_CoordinatesRendered ==
  /\ display_error = None
  /\ \A k \in DOMAIN rows :
       LET loc == confirmed_events[ei][1].locations[k]
       IN  /\ ((loc.latitude = <<>>) # (loc.longitude = <<>>)) => rows[k].na
           /\ (loc.latitude # <<>> /\ loc.longitude # <<>>) =>
                /\ ~rows[k].na
                /\ rows[k].lat = Fmt4f(loc.latitude[1])
                /\ rows[k].lon = Fmt4f(loc.longitude[1])

\* the keys of a dict the provider builds
ArticleKeys == {"title", "link", "published", "summary"}

\* C11: no stage changes an earlier stage's output.  Once fetched, the
\* article sequence stays as it is; once computed, the relevant articles,
\* the payloads and the events stay as they are; every payload is a record
\* of its own, with the three entity fields added; and the article of every
\* returned pair is one of the fetched records, without those fields.
C11_StagesLeaveInputsAlone ==
  [][/\ (pc # "L81" => articles' = articles)
     /\ (pc \notin {"L81", "L87", "L93", "L99"} => relevance_results' = relevance_results)
     /\ (pc \notin {"L81", "L87", "L93", "L99", "L106"} =>
           relevant_articles' = relevant_articles)
     /\ (pc \in {"L133", "L143"} => batch_inputs' = batch_inputs)
     /\ (pc = "L143" => disaster_events' = disaster_events)
     /\ (\A i \in DOMAIN batch_inputs' :
           /\ DOMAIN batch_inputs'[i] = ArticleKeys \cup {"locations", "dates", "events"}
           /\ batch_inputs'[i] # relevant_articles'[i])
     /\ (pc' = "returned" =>
           \A k \in DOMAIN result' :
              /\ DOMAIN result'[k][2] = ArticleKeys
              /\ \E i \in DOMAIN articles : articles[i] = result'[k][2])
    ]_vars

\* a run went through classification, augmentation with entities found by
\* the tagger, and extraction, and returned a pair
C11_Witness ==
  /\ Returned /\ result # <<>>
  /\ nlp
  /\ \E i \in DOMAIN batch_inputs : batch_inputs[i].locations # <<>>
  /\ Len(relevant_articles) < Len(articles)

====
